---- MODULE Spec2Model ----
(***************************************************************************)
(* The retrieval core of Cortex AI: the session VectorStore                *)
(* (utils/embeddings.py) with its BM25 index, the bounded embedding call,  *)
(* the hybrid ranking, and the handlers of backend/server.py and           *)
(* backend/agent.py that call it on the server's single event loop.        *)
(*                                                                         *)
(* Representation.  A text is a sequence of one-character strings.  An     *)
(* embedding matrix is [n, d, v]: n rows of dimension d; v[i] holds the    *)
(* first two coordinates of row i, every other coordinate being 0.  The    *)
(* provider's vectors all have L2 norm 5 (or 0), so that cosines are the   *)
(* exact rationals dot/25.  Scores are kept as integer numerators over a   *)
(* common positive denominator, which preserves their sign and order.      *)
(***************************************************************************)
EXTENDS Integers, Sequences, FiniteSets, TLC

VARIABLES hf_token, embeddings, chunks, bm25, initialized,
          upc, pending, ret, ck,
          groq_api_key, sessions, objs, up, resp

vars == <<hf_token, embeddings, chunks, bm25, initialized, upc, pending, ret, ck,
          groq_api_key, sessions, objs, up, resp>>

\* The state of backend/server.py: the registry and the session objects.
server == <<groq_api_key, sessions, objs, up, resp>>

\* The state of one VectorStore and of one chunk_text call, in detail.
core == <<hf_token, embeddings, chunks, bm25, initialized, upc, pending, ret, ck>>

\* ------------------------------------------------------------------ bounds
\* Most chunks a store holds in the model.
MaxChunks == 2
\* Most words of a text given to chunk_text.
MaxWords == 4
\* Most session objects the server creates.
MaxObjects == 2
\* Most messages an agent's memory holds.
MaxMessages == 2

\* ------------------------------------------------------- program constants
dim == 384
CHUNK_SIZE == 600
CHUNK_OVERLAP == 100
TOP_K_RESULTS == 8
\* SEMANTIC_WEIGHT = 0.6 and KEYWORD_WEIGHT = 0.4, in tenths.
SEMANTIC_WEIGHT == 6
KEYWORD_WEIGHT == 4
None == "None"

\* ------------------------------------------------------------- input sets
T_ab == <<"a", " ", "b">>
T_Aac == <<"A", " ", "a", " ", "c">>
T_dot == <<".">>
Texts == {T_ab, T_Aac, T_dot}
Q_empty == <<>>
Q_a == <<"a">>
Q_Bc == <<"B", " ", "c">>
Queries == {Q_empty, Q_a, Q_Bc}
TopKs == {-1, 0, 1, TOP_K_RESULTS}
Filenames == {"f1.txt"}
ZeroVec == <<0, 0>>
VecHeads == {ZeroVec, <<5, 0>>, <<3, 4>>}
QueryVecHeads == {ZeroVec, <<5, 0>>, <<-5, 0>>}
FileFilters == Filenames \cup {None, "absent.txt"}
HfTokens == {"", "hf_secret"}

\* ------------------------------------------------------------------ BM25
WordChars == {"a", "b", "c"}

lower(ch) ==
    CASE ch = "A" -> "a"
      [] ch = "B" -> "b"
      [] ch = "C" -> "c"
      [] OTHER -> ch

RECURSIVE findall_w(_, _, _)
\* re.findall(r'\w+', s): the maximal runs of word characters, left to right.
findall_w(s, i, cur) ==
    IF i > Len(s) THEN (IF cur = <<>> THEN <<>> ELSE <<cur>>)
    ELSE IF s[i] \in WordChars THEN findall_w(s, i + 1, Append(cur, s[i]))
    ELSE (IF cur = <<>> THEN <<>> ELSE <<cur>>) \o findall_w(s, i + 1, <<>>)

_tokenize(text) ==
    IF text = <<>> THEN <<>>
    ELSE findall_w([i \in 1..Len(text) |-> lower(text[i])], 1, <<>>)

RECURSIVE SumSeq(_)
SumSeq(s) == IF s = <<>> THEN 0 ELSE Head(s) + SumSeq(Tail(s))

Range(s) == {s[i] : i \in 1..Len(s)}

count(doc, token) == Cardinality({i \in 1..Len(doc) : doc[i] = token})

\* BM25(): the unfit index.  avg_dl is kept as the pair sum_dl / max(corpus_size, 1).
BM25Init ==
    [corpus_size |-> 0, sum_dl |-> 0, doc_freqs |-> <<>>, doc_lens |-> <<>>,
     tokenized_corpus |-> <<>>]

fit(corpus) ==
    LET tc == [i \in 1..Len(corpus) |-> _tokenize(corpus[i])]
        lens == [i \in 1..Len(corpus) |-> Len(tc[i])]
        terms == UNION {Range(tc[i]) : i \in 1..Len(corpus)}
    IN  [corpus_size |-> Len(corpus),
         sum_dl |-> SumSeq(lens),
         doc_freqs |-> [t \in terms |->
                          Cardinality({i \in 1..Len(corpus) : t \in Range(tc[i])})],
         doc_lens |-> lens,
         tokenized_corpus |-> tc]

\* 1000 * ln((N - df + 0.5) / (df + 0.5) + 1), rounded, for 1 <= df <= N <= 6.
IdfTable ==
    << <<288>>,
       <<693, 182>>,
       <<981, 470, 134>>,
       <<1204, 693, 357, 105>>,
       <<1386, 875, 539, 288, 87>>,
       <<1540, 1030, 693, 442, 241, 74>> >>

idf(N, df) == IdfTable[N][df]

\* idf * tf*(k1+1) / (tf + k1*(1 - b + b*dl/avg_dl)) with k1 = 1.5, b = 0.75 and
\* avg_dl = sum_dl / N, that is idf * 20*tf*sum_dl / (8*tf*sum_dl + 3*sum_dl + 9*dl*N),
\* in units of 1e-5.
term_score(b, token, i) ==
    LET tf == count(b.tokenized_corpus[i], token)
        dl == b.doc_lens[i]
        N == b.corpus_size
        S == b.sum_dl
    IN  (idf(N, b.doc_freqs[token]) * 20 * tf * S * 100)
            \div (8 * tf * S + 3 * S + 9 * dl * N)

score_first_token(b, query_tokens, i) ==
    IF query_tokens = <<>> THEN 0
    ELSE IF Head(query_tokens) \in DOMAIN b.doc_freqs
           THEN term_score(b, Head(query_tokens), i) ELSE 0

RECURSIVE score_from(_, _, _)
score_from(b, query_tokens, i) ==
    IF query_tokens = <<>> THEN 0
    ELSE (IF Head(query_tokens) \in DOMAIN b.doc_freqs
            THEN term_score(b, Head(query_tokens), i) ELSE 0)
         + score_from(b, Tail(query_tokens), i)

score(b, query) ==
    LET query_tokens == _tokenize(query)
    IN  IF b.corpus_size = 0 \/ query_tokens = <<>>
          THEN [i \in 1..b.corpus_size |-> 0]
          ELSE [i \in 1..b.corpus_size |-> score_from(b, query_tokens, i)]

\* ------------------------------------------------------------- embed
\* What the provider does with one request.
\* "wide200" is a 200 whose rows are not 384 wide.
Responses == {"ok200", "wide200", "s503", "status500", "timeout", "badbody200"}

\* The provider's answers to requests 1, 2, ...; one more than the code can make.
ProviderRuns == [1..4 -> Responses]

\* The runs that differ in what the code can see: after an answer that is not
\* a 503 nothing more is asked.
DistinctRuns == {r \in ProviderRuns : \A i \in 2..4 : r[i-1] # "s503" => r[i] = "timeout"}

zeros(n, d) == [n |-> n, d |-> d, v |-> [i \in 1..n |-> ZeroVec]]

\* np.array(data, dtype="float32"), reshaped to 2-D: the provider's rows.
array(vecs) == [n |-> Len(vecs), d |-> dim, v |-> vecs]

\* The same for rows of another width.
array_wide(vecs) == [n |-> Len(vecs), d |-> 2 * dim, v |-> vecs]

RECURSIVE attempts(_, _, _, _, _)
\* The body of `for _ in range(limit)`: request number k, answered by run[k].
attempts(texts, run, vecs, k, limit) ==
    IF k > limit THEN [res |-> zeros(Len(texts), dim), requests |-> limit, raised |-> None]
    ELSE CASE run[k] = "ok200" -> [res |-> array(vecs), requests |-> k, raised |-> None]
           [] run[k] = "wide200" ->
                [res |-> array_wide(vecs), requests |-> k, raised |-> None]
           [] run[k] = "s503" -> attempts(texts, run, vecs, k + 1, limit)
           [] OTHER -> [res |-> zeros(Len(texts), dim), requests |-> k, raised |-> None]

\* VectorStore.embed with token `token`, the provider answering by `run` and
\* returning `vecs` (one row per text) with a 200.
embed_unbounded(token, texts, run, vecs) ==
    IF token = "" \/ texts = <<>>
      THEN [res |-> zeros(Len(texts), dim), requests |-> 0, raised |-> None]
      ELSE attempts(texts, run, vecs, 1, 4)

RECURSIVE attempts_propagate(_, _, _, _)
attempts_propagate(texts, run, vecs, k) ==
    IF k > 3 THEN [res |-> zeros(Len(texts), dim), requests |-> 3, raised |-> None]
    ELSE CASE run[k] = "ok200" -> [res |-> array(vecs), requests |-> k, raised |-> None]
           [] run[k] = "wide200" ->
                [res |-> array_wide(vecs), requests |-> k, raised |-> None]
           [] run[k] = "s503" -> attempts_propagate(texts, run, vecs, k + 1)
           [] run[k] = "timeout" ->
                [res |-> zeros(0, dim), requests |-> k, raised |-> "Timeout"]
           [] OTHER -> [res |-> zeros(Len(texts), dim), requests |-> k, raised |-> None]

embed_propagates(token, texts, run, vecs) ==
    IF token = "" \/ texts = <<>>
      THEN [res |-> zeros(Len(texts), dim), requests |-> 0, raised |-> None]
      ELSE attempts_propagate(texts, run, vecs, 1)

embed(token, texts, run, vecs) ==
    IF token = "" \/ texts = <<>>
      THEN [res |-> zeros(Len(texts), dim), requests |-> 0, raised |-> None]
      ELSE attempts(texts, run, vecs, 1, 3)

\* ------------------------------------------------------- hybrid_search
Min(a, b) == IF a <= b THEN a ELSE b
Max(a, b) == IF a >= b THEN a ELSE b

RECURSIVE SeqMax(_)
\* The largest entry of a non-empty sequence.
SeqMax(s) == IF Len(s) = 1 THEN s[1] ELSE Max(Head(s), SeqMax(Tail(s)))

Dot(a, b) == a[1] * b[1] + a[2] * b[2]

\* np.linalg.norm of a provider vector (an exact integer for the vectors used).
norm(v) == CHOOSE n \in 0..5 : n * n = Dot(v, v)

\* 25 * dot(row / (|row| + 1e-10), q / (|q| + 1e-10)): 0 when either is all-zero.
cosine(row, q) ==
    IF norm(row) = 0 \/ norm(q) = 0 THEN 0
    ELSE (25 * Dot(row, q)) \div (norm(row) * norm(q))

\* self.embeddings is Optional: <<>> for None, <<m>> for the matrix m.
NoEmbeddings == <<>>

rows(e) == IF e = NoEmbeddings THEN 0 ELSE e[1].n

semantic_scores(e, query_emb) == [i \in 1..rows(e) |-> cosine(e[1].v[i], query_emb)]

\* SEMANTIC_WEIGHT * sem / s_max + KEYWORD_WEIGHT * kw / k_max (each division only
\* when the maximum is > 0), every entry times the same 10 * SD * KD > 0.
combine(sem, kw) ==
    LET s_max == SeqMax(sem)
        k_max == SeqMax(kw)
        SD == IF s_max > 0 THEN s_max ELSE 25
        KD == IF k_max > 0 THEN k_max ELSE 100000
    IN  [i \in 1..Len(sem) |-> SEMANTIC_WEIGHT * sem[i] * KD + KEYWORD_WEIGHT * kw[i] * SD]

\* np.argsort(a): an index order that sorts a ascending.  The default sort kind
\* is not stable, so the order among equal entries is any.
argsort(a) ==
    {p \in [1..Len(a) -> 1..Len(a)] :
        /\ \A i \in 1..(Len(a) - 1) : a[p[i]] <= a[p[i + 1]]
        /\ \A i \in 1..Len(a) : \A j \in (i + 1)..Len(a) : p[i] # p[j]}

\* s[::-1]
reversed(s) == [i \in 1..Len(s) |-> s[Len(s) + 1 - i]]

\* s[:k], for any integer k.
head_slice(s, k) ==
    SubSeq(s, 1, IF k >= 0 THEN Min(k, Len(s)) ELSE Max(Len(s) + k, 0))

top_indices_ascending(order, top_k) == head_slice(order, top_k)

top_indices(order, top_k) == head_slice(reversed(order), top_k)

returned_unfiltered(cs, combined, top) ==
    [j \in 1..Len(top) |-> [chunk |-> cs[top[j]], score |-> combined[top[j]], idx |-> top[j]]]

\* [(self.chunks[i], float(combined[i])) for i in top_indices if combined[i] > 0]
returned(cs, combined, top) ==
    LET keep(i) == combined[i] > 0
        kept == SelectSeq(top, keep)
    IN  [j \in 1..Len(kept) |-> [chunk |-> cs[kept[j]], score |-> combined[kept[j]],
                                 idx |-> kept[j]]]

\* The parameters hybrid_search accepts.
hybrid_search_params == {"self", "query", "top_k"}

\* Python's binding of keyword arguments to a signature.
bind(params, kwargs) == IF kwargs \subseteq params THEN None ELSE "TypeError"

\* ------------------------------------------------------------ chunk_text
\* str.strip, str.split and \s: the whitespace of the texts used.
Whitespace == {" ", "\n"}
\* [.!?]
Punct == {".", "!", "?"}
\* [A-Z]
Upper == {"A", "B", "C"}

\* s.strip(): from the first to the last character that is not whitespace.
strip(s) ==
    LET inked == {i \in 1..Len(s) : s[i] \notin Whitespace}
    IN  IF inked = {} THEN <<>>
        ELSE SubSeq(s, CHOOSE i \in inked : \A j \in inked : i <= j,
                       CHOOSE i \in inked : \A j \in inked : i >= j)

RECURSIVE word_starts(_, _, _)
\* The positions lo..hi of s at which a maximal run of non-whitespace starts, in
\* order.
word_starts(s, lo, hi) ==
    IF lo > hi THEN <<>>
    ELSE IF lo = hi
      THEN (IF s[lo] \notin Whitespace /\ (lo = 1 \/ s[lo - 1] \in Whitespace)
              THEN <<lo>> ELSE <<>>)
    ELSE CHOOSE starts \in {word_starts(s, lo, mid) \o word_starts(s, mid + 1, hi) :
                                mid \in {(lo + hi) \div 2}} : TRUE

\* The last position of the run of non-whitespace that starts at b.
word_end(s, b) ==
    CHOOSE j \in b..Len(s) :
        /\ \A k \in b..j : s[k] \notin Whitespace
        /\ (j = Len(s) \/ s[j + 1] \in Whitespace)

words_at(s, starts) ==
    [k \in 1..Len(starts) |-> SubSeq(s, starts[k], word_end(s, starts[k]))]

\* s.split(): the maximal runs of non-whitespace.
split(s) ==
    CHOOSE words \in {words_at(s, starts) : starts \in {word_starts(s, 1, Len(s))}} : TRUE

\* The last position of the whitespace run that starts at i.
WsRunEnd(s, i) ==
    CHOOSE j \in i..Len(s) :
        /\ \A k \in i..j : s[k] \in Whitespace
        /\ (j = Len(s) \/ s[j + 1] \notin Whitespace)

\* Where a match of \n\s*\n that starts at i ends (greedy): the last newline of
\* the whitespace run; i itself when the run has no second newline (no match).
NlEnd(s, i) ==
    CHOOSE j \in i..WsRunEnd(s, i) :
        /\ s[j] = "\n"
        /\ \A k \in (j + 1)..WsRunEnd(s, i) : s[k] # "\n"

\* The first newline at or after i; Len(s) + 1 when there is none.
NextNl(s, i) ==
    CHOOSE j \in i..(Len(s) + 1) :
        /\ \A k \in i..(j - 1) : s[k] # "\n"
        /\ (j = Len(s) + 1 \/ s[j] = "\n")

RECURSIVE split_paragraphs(_, _, _)
\* re.split(r'\n\s*\n', s): from position i, with the piece cur so far.  A
\* position where no match starts is kept, with what follows it up to the next
\* newline.
split_paragraphs(s, i, cur) ==
    IF i > Len(s) THEN <<cur>>
    ELSE IF s[i] = "\n" /\ NlEnd(s, i) > i
      THEN <<cur>> \o split_paragraphs(s, NlEnd(s, i) + 1, <<>>)
      ELSE CHOOSE pieces \in {split_paragraphs(s, j, cur \o SubSeq(s, i, j - 1)) :
                                  j \in {NextNl(s, i + 1)}} : TRUE

RECURSIVE split_sentences(_, _, _)
\* re.split(r'(?<=[.!?])\s+(?=[A-Z])', s)
split_sentences(s, i, cur) ==
    IF i > Len(s) THEN <<cur>>
    ELSE IF /\ s[i] \in Whitespace
            /\ i > 1
            /\ s[i - 1] \in Punct
            /\ WsRunEnd(s, i) < Len(s)
            /\ s[WsRunEnd(s, i) + 1] \in Upper
      THEN <<cur>> \o split_sentences(s, WsRunEnd(s, i) + 1, <<>>)
      ELSE split_sentences(s, i + 1, Append(cur, s[i]))

\* [p.strip() for p in pieces if p.strip()]
stripped_nonempty(pieces) ==
    LET keep(p) == p # <<>>
    IN  SelectSeq([i \in 1..Len(pieces) |-> strip(pieces[i])], keep)

_split_into_sentences(text) == stripped_nonempty(split_sentences(text, 1, <<>>))

RECURSIVE join(_)
\* "\n\n".join(parts)
join(parts) ==
    IF parts = <<>> THEN <<>>
    ELSE IF Len(parts) = 1 THEN parts[1]
    ELSE parts[1] \o <<"\n", "\n">> \o join(Tail(parts))

\* sum(len(p.split()) for p in parts)
word_count(parts) == SumSeq([i \in 1..Len(parts) |-> Len(split(parts[i]))])

RECURSIVE overlap_loop_strict(_, _, _, _, _)
overlap_loop_strict(parts, overlap_words, k, result, wc) ==
    IF k = 0 THEN result
    ELSE LET pw == Len(split(parts[k]))
         IN  IF wc + pw > overlap_words THEN result
             ELSE overlap_loop_strict(parts, overlap_words, k - 1,
                                      <<parts[k]>> \o result, wc + pw)

_get_overlap_parts_strict(parts, overlap_words) ==
    overlap_loop_strict(parts, overlap_words, Len(parts), <<>>, 0)

RECURSIVE overlap_loop_greedy(_, _, _, _, _)
overlap_loop_greedy(parts, overlap_words, k, result, wc) ==
    IF k = 0 THEN result
    ELSE LET pw == Len(split(parts[k]))
         IN  IF wc > overlap_words /\ result # <<>> THEN result
             ELSE overlap_loop_greedy(parts, overlap_words, k - 1,
                                      <<parts[k]>> \o result, wc + pw)

_get_overlap_parts_greedy(parts, overlap_words) ==
    overlap_loop_greedy(parts, overlap_words, Len(parts), <<>>, 0)

RECURSIVE overlap_loop(_, _, _, _, _)
\* for part in reversed(parts), at part number k with result and word_count so far.
overlap_loop(parts, overlap_words, k, result, wc) ==
    IF k = 0 THEN result
    ELSE LET pw == Len(split(parts[k]))
         IN  IF wc + pw > overlap_words /\ result # <<>> THEN result
             ELSE overlap_loop(parts, overlap_words, k - 1, <<parts[k]>> \o result, wc + pw)

_get_overlap_parts(parts, overlap_words) ==
    overlap_loop(parts, overlap_words, Len(parts), <<>>, 0)

\* chunk_text is not running.
CkIdle == [pc |-> "idle"]

\* ----------------------------------------------------------- the store
all_texts(cs) == [i \in 1..Len(cs) |-> cs[i].content]

vstack_replace(old, new) == new

vstack_prepend(old, new) == [n |-> old.n + new.n, d |-> old.d, v |-> new.v \o old.v]

\* np.vstack raises ValueError unless the rows have the same width; np.dot of a
\* matrix and a vector likewise.
same_width(old, new) == old.d = new.d

\* np.vstack([old, new])
vstack(old, new) == [n |-> old.n + new.n, d |-> old.d, v |-> old.v \o new.v]

\* The last call and what it returned.
Ret0 ==
    [op |-> "none", query |-> <<>>, top_k |-> 0, file_filter |-> None,
     result |-> <<>>, combined |-> <<>>, kw |-> <<>>, query_emb |-> ZeroVec,
     seen |-> <<0, 0, 0>>, raised |-> None, requests |-> 0, texts |-> <<>>,
     run |-> <<>>, res |-> zeros(0, dim), token |-> "", parts |-> <<>>,
     overlap_words |-> 0]

\* The locals of the add_chunks call in progress: its argument and what embed
\* returned for it.
NoPending == [chunks |-> <<>>, emb |-> zeros(0, dim)]

\* The chunk lists chunk_text hands to add_chunks for one file: up to `room` chunks.
NewChunkLists(room) ==
    UNION {{[i \in 1..k |-> [content |-> c[i], chunk_index |-> i - 1, filename |-> f]] :
               c \in [1..k -> Texts], f \in Filenames} : k \in 0..room}

\* The provider runs the store's calls are tried with, one for each way a call
\* can end: a 200 at once, with rows of either width, a failure, a 200 after a
\* 503, and three 503s.
StoreRuns ==
    {r \in DistinctRuns :
        \/ r[1] \in {"ok200", "wide200", "timeout"}
        \/ r[1] = "s503" /\ r[2] = "ok200"
        \/ r[1] = "s503" /\ r[2] = "s503" /\ r[3] = "s503" /\ r[4] = "timeout"}

\* What embed can return for `texts`, over the provider's runs and vectors; the
\* rows of another width all have the head <<5, 0>>.
EmbedResults(token, texts, heads) ==
    {e \in {embed(token, texts, run, vecs) :
                run \in StoreRuns, vecs \in [1..Len(texts) -> heads]} :
        e.res.d = dim \/ \A i \in 1..e.res.n : e.res.v[i] = <<5, 0>>}

\* ------------------------------------------------------------ the server
SessionIds == {"S"}
UploadNames == {"f1.txt", "f2.txt"}
GroqKeys == {"", "gsk"}
\* A query without and one with a comparison word.
ChatQueries == {"hello", "compare a and b"}

\* What happens to one uploaded file: chunked and added, refused for its size,
\* or an exception in parse_file, chunk_text or add_chunks.
UploadedFiles ==
    {[filename |-> f, outcome |-> "ok", chunk_count |-> k] :
        f \in UploadNames, k \in 0..MaxChunks}
    \cup {[filename |-> f, outcome |-> o, chunk_count |-> 0] :
             f \in UploadNames, o \in {"too_large", "raises"}}

\* The files of one upload request: any one file, or two files of one chunk each.
UploadRequests ==
    [1..1 -> UploadedFiles]
    \cup [1..2 -> {[filename |-> f, outcome |-> "ok", chunk_count |-> 1] : f \in UploadNames}]

\* No upload_files call is running.
NoUpload == [pc |-> "idle", session |-> 0, todo |-> <<>>, results |-> <<>>]

\* The last response; nothing was answered yet.
Resp0 ==
    [op |-> "none", session_id |-> "", results |-> <<>>, total_chunks |-> 0,
     total_files |-> 0, raised |-> None]

\* A new session object: its VectorStore (the filename of each chunk, in store
\* order), its files dict (<<>> for a missing key) and its agent's memory.
NewSession(sid) ==
    [id |-> sid, vector_store |-> <<>>, files |-> [f \in UploadNames |-> <<>>],
     memory |-> <<>>]

\* A session object nothing refers to any more.
Dropped == NewSession("")

\* get_or_create_session(session_id): the object returned, and the registry
\* and the objects after the call.
session_ref(session_id) ==
    IF sessions[session_id] # <<>> THEN sessions[session_id][1] ELSE Len(objs) + 1

sessions_after(session_id) ==
    IF sessions[session_id] # <<>> THEN sessions
    ELSE [sessions EXCEPT ![session_id] = <<Len(objs) + 1>>]

objs_after(session_id) ==
    IF sessions[session_id] # <<>> THEN objs ELSE Append(objs, NewSession(session_id))

\* The call can be made within the bound on session objects.
CanGetOrCreate(session_id) == sessions[session_id] # <<>> \/ Len(objs) < MaxObjects

ServerFresh ==
    /\ sessions = [sid \in SessionIds |-> <<>>]
    /\ objs = <<>>
    /\ up = NoUpload
    /\ resp = Resp0

Init ==
    /\ groq_api_key = ""
    /\ ServerFresh
    /\ hf_token \in HfTokens
    /\ embeddings = NoEmbeddings
    /\ chunks = <<>>
    /\ bm25 = BM25Init
    /\ initialized = FALSE
    /\ upc = "idle"
    /\ pending = NoPending
    /\ ret = Ret0
    /\ ck = CkIdle

\* A call's result is taken by its caller, in the same synchronous section,
\* before anything else runs.
Returned == ret.op = "none"

Consume ==
    /\ ~Returned
    /\ ret' = Ret0
    /\ UNCHANGED <<server, ck, hf_token, embeddings, chunks, bm25, initialized, upc, pending>>

LoopFree_threaded == TRUE

\* The handlers are coroutines of one event loop, and add_chunks has no await:
\* another handler runs only while upload_files is not inside add_chunks.
LoopFree == upc \in {"idle", "await_read"}

\* upload_files up to its first `await file.read()`.
UploadBegin ==
    /\ Returned
    /\ upc = "idle"
    /\ upc' = "await_read"
    /\ UNCHANGED <<server, ck, hf_token, embeddings, chunks, bm25, initialized, pending, ret>>

AddChunksEmbed_extend_first(new, e) ==
    /\ Returned
    /\ upc = "await_read"
    /\ Len(chunks) + Len(new) <= MaxChunks
    /\ IF new = <<>>
         THEN UNCHANGED <<embeddings, chunks, upc, pending, ret>>
         ELSE IF embeddings # NoEmbeddings /\ ~same_width(embeddings[1], e.res)
           THEN /\ chunks' = chunks \o new
                /\ ret' = [Ret0 EXCEPT !.op = "add_chunks", !.raised = "ValueError"]
                /\ UNCHANGED <<embeddings, upc, pending>>
         ELSE /\ embeddings' = IF embeddings = NoEmbeddings THEN <<e.res>>
                               ELSE <<vstack(embeddings[1], e.res)>>
              /\ upc' = "assigned"
              /\ pending' = [chunks |-> new, emb |-> e.res]
              /\ UNCHANGED <<chunks, ret>>
    /\ UNCHANGED <<server, ck, hf_token, bm25, initialized>>

\* upload_files resumes with a file's chunks: add_chunks, up to the assignment of
\* self.embeddings.  When np.vstack raises, nothing was assigned yet; upload_files
\* catches the exception (lines 178-184) and goes on with its loop.
AddChunksEmbed(new, e) ==
    /\ Returned
    /\ upc = "await_read"
    /\ Len(chunks) + Len(new) <= MaxChunks
    /\ IF new = <<>>
         THEN UNCHANGED <<embeddings, upc, pending, ret>>
         ELSE IF embeddings # NoEmbeddings /\ ~same_width(embeddings[1], e.res)
           THEN /\ ret' = [Ret0 EXCEPT !.op = "add_chunks", !.raised = "ValueError"]
                /\ UNCHANGED <<embeddings, upc, pending>>
         ELSE /\ embeddings' = IF embeddings = NoEmbeddings THEN <<e.res>>
                               ELSE <<vstack(embeddings[1], e.res)>>
              /\ upc' = "assigned"
              /\ pending' = [chunks |-> new, emb |-> e.res]
              /\ UNCHANGED ret
    /\ UNCHANGED <<server, ck, hf_token, chunks, bm25, initialized>>

\* self.chunks.extend(chunks)
AddChunksExtend ==
    /\ Returned
    /\ upc = "assigned"
    /\ chunks' = chunks \o pending.chunks
    /\ upc' = "extended"
    /\ UNCHANGED <<server, ck, hf_token, embeddings, bm25, initialized, pending, ret>>

AddChunksFit_new_only ==
    /\ Returned
    /\ upc = "extended"
    /\ bm25' = fit(all_texts(pending.chunks))
    /\ initialized' = TRUE
    /\ upc' = "await_read"
    /\ pending' = NoPending
    /\ UNCHANGED <<server, ck, hf_token, embeddings, chunks, ret>>

\* self.bm25.fit(all_texts); self._initialized = True; back in upload_files' loop.
AddChunksFit ==
    /\ Returned
    /\ upc = "extended"
    /\ bm25' = fit(all_texts(chunks))
    /\ initialized' = TRUE
    /\ upc' = "await_read"
    /\ pending' = NoPending
    /\ UNCHANGED <<server, ck, hf_token, embeddings, chunks, ret>>

\* upload_files returns.
UploadEnd ==
    /\ Returned
    /\ upc = "await_read"
    /\ upc' = "idle"
    /\ UNCHANGED <<server, ck, hf_token, embeddings, chunks, bm25, initialized, pending, ret>>

Clear_keeps_index ==
    /\ Returned
    /\ LoopFree
    /\ embeddings' = NoEmbeddings
    /\ chunks' = <<>>
    /\ initialized' = FALSE
    /\ ret' = [Ret0 EXCEPT !.op = "clear",
                           !.seen = <<Len(chunks), rows(embeddings), bm25.corpus_size>>]
    /\ UNCHANGED <<server, ck, hf_token, bm25, upc, pending>>

\* VectorStore.clear
Clear ==
    /\ Returned
    /\ LoopFree
    /\ embeddings' = NoEmbeddings
    /\ chunks' = <<>>
    /\ bm25' = BM25Init
    /\ initialized' = FALSE
    /\ ret' = [Ret0 EXCEPT !.op = "clear",
                           !.seen = <<Len(chunks), rows(embeddings), bm25.corpus_size>>]
    /\ UNCHANGED <<server, ck, hf_token, upc, pending>>

\* VectorStore.hybrid_search(query, top_k), for every top_k of TopKs; e is what
\* self.embed([query]) returns.
HybridSearch(query, e) ==
    /\ Returned
    /\ LoopFree
    /\ LET seen == <<Len(chunks), rows(embeddings), bm25.corpus_size>>
           call(top_k) == [Ret0 EXCEPT !.op = "hybrid_search", !.query = query,
                                       !.top_k = top_k, !.seen = seen]
       IN  IF ~initialized \/ chunks = <<>>
             THEN \E top_k \in TopKs : ret' = call(top_k)
             ELSE IF seen[2] # seen[3] \/ seen[2] = 0
               THEN \E top_k \in TopKs : ret' = [call(top_k) EXCEPT !.raised = "ValueError"]
             ELSE IF ~same_width(embeddings[1], e.res)
               THEN \E top_k \in TopKs : ret' = [call(top_k) EXCEPT !.raised = "ValueError"]
             ELSE IF seen[2] # seen[1]
               THEN \E top_k \in TopKs : ret' = [call(top_k) EXCEPT !.raised = "IndexError"]
             ELSE \E query_emb \in {e.res.v[1]}, kw \in {score(bm25, query)} :
                  \E sem \in {semantic_scores(embeddings, query_emb)} :
                  \E combined \in {combine(sem, kw)} :
                  \E order \in argsort(combined) :
                  \E top_k \in TopKs :
                        ret' = [call(top_k) EXCEPT
                                  !.query_emb = query_emb, !.kw = kw,
                                  !.combined = combined,
                                  !.result = returned(chunks, combined,
                                                      top_indices(order, top_k))]
    /\ UNCHANGED <<server, ck, hf_token, embeddings, chunks, bm25, initialized, upc, pending>>

\* LexiSenseAgent._build_context: self.vector_store.hybrid_search(query,
\* file_filter=file_filter).  The keyword is bound before the body runs.
BuildContext(query, file_filter) ==
    /\ Returned
    /\ LoopFree
    /\ LET err == bind(hybrid_search_params, {"file_filter"})
       IN  /\ err # None
           /\ ret' = [Ret0 EXCEPT !.op = "_build_context", !.query = query,
                                  !.top_k = TOP_K_RESULTS, !.file_filter = file_filter,
                                  !.raised = err]
    /\ UNCHANGED <<server, ck, hf_token, embeddings, chunks, bm25, initialized, upc, pending>>

Next ==
    \/ UploadBegin
    \/ /\ Returned /\ upc = "await_read"
       /\ \E new \in NewChunkLists(MaxChunks - Len(chunks)) :
            \E e \in EmbedResults(hf_token, all_texts(new), VecHeads) :
               AddChunksEmbed(new, e)
    \/ AddChunksExtend
    \/ AddChunksFit
    \/ UploadEnd
    \/ Clear
    \/ /\ Returned /\ LoopFree
       /\ \E query \in Queries :
            \E e \in EmbedResults(hf_token, <<query>>, QueryVecHeads) :
               HybridSearch(query, e)
    \/ \E query \in Queries, file_filter \in FileFilters :
         BuildContext(query, file_filter)
    \/ Consume

Spec == Init /\ [][Next]_vars

\* ------------------------------------------- embed as a function of its inputs
TextLists == UNION {[1..k -> Texts] : k \in 0..2}

\* VectorStore.embed(texts), called on a fresh store.
Embed(texts, run, vecs) ==
    /\ ret.op = "none"
    /\ LET e == embed(hf_token, texts, run, vecs)
       IN  ret' = [Ret0 EXCEPT !.op = "embed", !.texts = texts, !.run = run,
                               !.res = e.res, !.requests = e.requests,
                               !.raised = e.raised, !.token = hf_token]
    /\ UNCHANGED <<server, ck, hf_token, embeddings, chunks, bm25, initialized, upc, pending>>

NextEmbed ==
    \E texts \in TextLists, run \in DistinctRuns :
        \E vecs \in [1..Len(texts) -> VecHeads] : Embed(texts, run, vecs)

SpecEmbed == Init /\ [][NextEmbed]_vars

\* ------------------------------------- BM25.score as a function of its inputs
Q_ba == <<"b", "a">>
ScoreQueries == Queries \cup {Q_ba}
Corpora == UNION {[1..k -> Texts] : k \in 0..(MaxChunks + 1)}

\* BM25().fit(corpus) (no fit for the empty corpus), then score(query).
Score(corpus, query) ==
    /\ ret.op = "none"
    /\ LET b == IF corpus = <<>> THEN BM25Init ELSE fit(corpus)
       IN  ret' = [Ret0 EXCEPT !.op = "score", !.texts = corpus, !.query = query,
                               !.kw = score(b, query)]
    /\ UNCHANGED <<server, ck, hf_token, embeddings, chunks, bm25, initialized, upc, pending>>

NextBM25 == \E corpus \in Corpora, query \in ScoreQueries : Score(corpus, query)

SpecBM25 == Init /\ [][NextBM25]_vars

\* --------------------------- _get_overlap_parts as a function of its inputs
\* Units of one, two and three words.
PartUnits == {<<"a">>, <<"B", " ", "a">>, <<"a", " ", "a", ".", " ", "a">>}
PartLists == UNION {[1..k -> PartUnits] : k \in 0..(MaxWords - 1)}
OverlapWords == 0..MaxWords

\* _get_overlap_parts(parts, overlap_words)
GetOverlapParts(parts, overlap_words) ==
    /\ ret.op = "none"
    /\ ret' = [Ret0 EXCEPT !.op = "_get_overlap_parts", !.parts = parts,
                            !.overlap_words = overlap_words,
                            !.result = _get_overlap_parts(parts, overlap_words)]
    /\ UNCHANGED <<server, ck, hf_token, embeddings, chunks, bm25, initialized, upc, pending>>

NextOverlap ==
    \E parts \in PartLists, overlap_words \in OverlapWords :
        GetOverlapParts(parts, overlap_words)

SpecOverlap == Init /\ [][NextOverlap]_vars

\* ------------------------------------------------- chunk_text, step by step
Tokens == {<<"a">>, <<"a", ".">>, <<"B">>}
Seps == {<<" ">>, <<"\n", "\n">>, <<"\n", " ", "\n">>}

RECURSIVE TextOf(_, _)
\* The words toks with the separators seps between them.
TextOf(toks, seps) ==
    IF toks = <<>> THEN <<>>
    ELSE IF Len(toks) = 1 THEN toks[1]
    ELSE toks[1] \o seps[1] \o TextOf(Tail(toks), Tail(seps))

TextsOfWords(n) ==
    UNION {{TextOf(toks, seps) : toks \in [1..k -> Tokens], seps \in [1..(k - 1) -> Seps]} :
              k \in 0..n}

PlainTexts == TextsOfWords(MaxWords)
\* The texts of fewer words whose paragraph breaks are all "\n\n".
ShortTexts ==
    {t \in TextsOfWords(MaxWords - 1) :
        \A i \in 1..(Len(t) - 1) : ~(t[i] = "\n" /\ t[i + 1] = " ")}

\* Every text also with leading and trailing whitespace.
ChunkTexts == PlainTexts \cup {<<" ">> \o t \o <<"\n">> : t \in PlainTexts}

\* A paragraph of 300 words w.
Paragraph300(w) == [i \in 1..599 |-> IF i % 2 = 1 THEN w ELSE " "]

\* Three paragraphs of 300 words each.
T_300x3 ==
    Paragraph300("a") \o <<"\n", "\n">> \o Paragraph300("B") \o <<"\n", "\n">>
        \o Paragraph300("c")

\* (chunk_size, chunk_overlap)
LiveParams == {<<1, 0>>, <<2, 1>>, <<1, 2>>}
ChunkParams == LiveParams \cup {<<CHUNK_SIZE, CHUNK_OVERLAP>>}

\* The locals of chunk_text at its entry.
CkStart(text, chunk_size, chunk_overlap) ==
    [pc |-> "start", text |-> text, filename |-> "f1.txt",
     chunk_size |-> chunk_size, chunk_overlap |-> chunk_overlap,
     paragraphs |-> <<>>, p |-> 1, sentences |-> <<>>, s |-> 1,
     current_chunk_parts |-> <<>>, current_word_count |-> 0,
     chunks |-> <<>>, log |-> <<>>]

next_index_from_one(cs) == Len(cs) + 1

\* chunk_index=len(chunks)
next_index(cs) == Len(cs)

\* chunks.append(DocumentChunk(content="\n\n".join(current_chunk_parts), ...)).
\* log keeps, for each chunk, its parts and the emission point.
emit(c, via) ==
    [c EXCEPT !.chunks = Append(c.chunks,
                                [content |-> join(c.current_chunk_parts),
                                 chunk_index |-> next_index(c.chunks),
                                 filename |-> c.filename]),
              !.log = Append(c.log, [parts |-> c.current_chunk_parts, via |-> via])]

\* An emission inside the loop: append the chunk, keep the overlap.
flush(c, via) ==
    LET overlap_parts == _get_overlap_parts(c.current_chunk_parts, c.chunk_overlap)
    IN  [emit(c, via) EXCEPT !.current_chunk_parts = overlap_parts,
                             !.current_word_count = word_count(overlap_parts)]

InitChunk ==
    /\ groq_api_key = ""
    /\ ServerFresh
    /\ hf_token = ""
    /\ embeddings = NoEmbeddings
    /\ chunks = <<>>
    /\ bm25 = BM25Init
    /\ initialized = FALSE
    /\ upc = "idle"
    /\ pending = NoPending
    /\ ret = Ret0
    /\ \/ \E text \in ChunkTexts, prm \in ChunkParams : ck = CkStart(text, prm[1], prm[2])
       \/ ck = CkStart(T_300x3, CHUNK_SIZE, CHUNK_OVERLAP)

\* The calls termination is checked on: the texts of fewer words, without the
\* added whitespace and with plain paragraph breaks, and the small parameter pairs.
InitChunkLive ==
    /\ InitChunk
    /\ ck.text \in ShortTexts
    /\ <<ck.chunk_size, ck.chunk_overlap>> \in LiveParams

\* Lines 51-61: the early return for blank text, the split into paragraphs.
ChunkBegin ==
    /\ ck.pc = "start"
    /\ IF strip(ck.text) = <<>>
         THEN ck' = [ck EXCEPT !.pc = "done"]
         ELSE \E paragraphs \in {split_paragraphs(ck.text, 1, <<>>)} :
                 ck' = [ck EXCEPT !.pc = "paragraphs",
                                  !.paragraphs = stripped_nonempty(paragraphs)]
    /\ UNCHANGED <<server, hf_token, embeddings, chunks, bm25, initialized, upc, pending,
                   ret>>

\* One iteration of `for para in paragraphs`, up to the sentence loop.
ParagraphStep ==
    /\ ck.pc = "paragraphs"
    /\ ck.p <= Len(ck.paragraphs)
    /\ LET para == ck.paragraphs[ck.p]
           para_word_count == Len(split(para))
       IN  IF para_word_count > ck.chunk_size
             THEN LET c1 == IF ck.current_chunk_parts # <<>> THEN flush(ck, "buffer") ELSE ck
                      sentences == _split_into_sentences(para)
                  IN  ck' = IF sentences = <<>>
                              THEN [c1 EXCEPT !.sentences = sentences, !.p = ck.p + 1]
                              ELSE [c1 EXCEPT !.sentences = sentences, !.s = 1,
                                              !.pc = "sentences"]
             ELSE LET c1 == IF ck.current_word_count + para_word_count > ck.chunk_size
                               /\ ck.current_chunk_parts # <<>>
                              THEN flush(ck, "paragraph") ELSE ck
                  IN  ck' = [c1 EXCEPT
                               !.current_chunk_parts = Append(c1.current_chunk_parts, para),
                               !.current_word_count = c1.current_word_count + para_word_count,
                               !.p = ck.p + 1]
    /\ UNCHANGED <<server, hf_token, embeddings, chunks, bm25, initialized, upc, pending,
                   ret>>

SentenceStep_recheck ==
    /\ ck.pc = "sentences"
    /\ LET sentence == ck.sentences[ck.s]
           s_words == Len(split(sentence))
           last == ck.s = Len(ck.sentences)
       IN  IF ck.current_word_count + s_words > ck.chunk_size /\ ck.current_chunk_parts # <<>>
             THEN ck' = flush(ck, "sentence")
             ELSE ck' = [ck EXCEPT
                           !.current_chunk_parts = Append(ck.current_chunk_parts, sentence),
                           !.current_word_count = ck.current_word_count + s_words,
                           !.s = ck.s + 1,
                           !.pc = IF last THEN "paragraphs" ELSE "sentences",
                           !.p = IF last THEN ck.p + 1 ELSE ck.p]
    /\ UNCHANGED <<server, hf_token, embeddings, chunks, bm25, initialized, upc, pending,
                   ret>>

\* One iteration of `for sentence in sentences`; after the last one the
\* paragraph loop goes on.
SentenceStep ==
    /\ ck.pc = "sentences"
    /\ LET sentence == ck.sentences[ck.s]
           s_words == Len(split(sentence))
           last == ck.s = Len(ck.sentences)
           c1 == IF ck.current_word_count + s_words > ck.chunk_size
                    /\ ck.current_chunk_parts # <<>>
                   THEN flush(ck, "sentence") ELSE ck
       IN  ck' = [c1 EXCEPT
                    !.current_chunk_parts = Append(c1.current_chunk_parts, sentence),
                    !.current_word_count = c1.current_word_count + s_words,
                    !.s = ck.s + 1,
                    !.pc = IF last THEN "paragraphs" ELSE "sentences",
                    !.p = IF last THEN ck.p + 1 ELSE ck.p]
    /\ UNCHANGED <<server, hf_token, embeddings, chunks, bm25, initialized, upc, pending,
                   ret>>

ChunkReturn_no_flush ==
    /\ ck.pc = "paragraphs"
    /\ ck.p > Len(ck.paragraphs)
    /\ ck' = [ck EXCEPT !.pc = "done"]
    /\ UNCHANGED <<server, hf_token, embeddings, chunks, bm25, initialized, upc, pending,
                   ret>>

\* Lines 119-130: the final flush and the return.
ChunkReturn ==
    /\ ck.pc = "paragraphs"
    /\ ck.p > Len(ck.paragraphs)
    /\ ck' = [(IF ck.current_chunk_parts # <<>> THEN emit(ck, "final") ELSE ck)
                 EXCEPT !.pc = "done"]
    /\ UNCHANGED <<server, hf_token, embeddings, chunks, bm25, initialized, upc, pending,
                   ret>>

NextChunk ==
    \/ ChunkBegin
    \/ ParagraphStep
    \/ SentenceStep
    \/ ChunkReturn

SpecChunk == InitChunk /\ [][NextChunk]_vars

\* chunk_text is synchronous code: once called it runs on.
SpecChunkLive == InitChunkLive /\ [][NextChunk]_vars /\ WF_vars(NextChunk)

\* ------------------------------------------------- the handlers of the server
InitServer ==
    /\ groq_api_key \in GroqKeys
    /\ ServerFresh
    /\ hf_token = ""
    /\ embeddings = NoEmbeddings
    /\ chunks = <<>>
    /\ bm25 = BM25Init
    /\ initialized = FALSE
    /\ upc = "idle"
    /\ pending = NoPending
    /\ ret = Ret0
    /\ ck = CkIdle

\* len(session["files"])
total_files(obj) == Cardinality({f \in UploadNames : obj.files[f] # <<>>})

\* upload_files up to its first `await file.read()`.
UploadFiles(session_id, files) ==
    /\ up.pc = "idle"
    /\ CanGetOrCreate(session_id)
    /\ sessions' = sessions_after(session_id)
    /\ objs' = objs_after(session_id)
    /\ up' = [pc |-> "await_read", session |-> session_ref(session_id), todo |-> files,
              results |-> <<>>]
    /\ UNCHANGED <<groq_api_key, resp, core>>

\* upload_files from the return of `await file.read()` to the next one, or to
\* the return after the last file.  For a file that is processed, add_chunks and
\* the assignment of session["files"][file.filename] run without an await.
UploadFilesResume ==
    /\ up.pc = "await_read"
    /\ LET file == Head(up.todo)
           obj == objs[up.session]
           stored == file.outcome = "ok"
           obj1 == IF stored
                     THEN [obj EXCEPT
                             !.vector_store = @ \o [i \in 1..file.chunk_count |-> file.filename],
                             !.files[file.filename] = <<file.chunk_count>>]
                     ELSE obj
           results == Append(up.results,
                             [filename |-> file.filename,
                              status |-> IF stored THEN "success" ELSE "error"])
       IN  /\ Len(obj.vector_store) + file.chunk_count <= MaxChunks
           /\ IF Len(up.todo) > 1
                THEN /\ up' = [up EXCEPT !.todo = Tail(@), !.results = results]
                     /\ objs' = [objs EXCEPT ![up.session] = obj1]
                     /\ UNCHANGED resp
                ELSE /\ up' = NoUpload
                     /\ objs' = [objs EXCEPT ![up.session] =
                                    IF sessions[obj.id] = <<up.session>> THEN obj1
                                    ELSE Dropped]
                     /\ resp' = [Resp0 EXCEPT !.op = "upload_files",
                                              !.session_id = obj.id,
                                              !.results = results,
                                              !.total_chunks = Len(obj1.vector_store),
                                              !.total_files = total_files(obj1)]
    /\ UNCHANGED <<groq_api_key, sessions, core>>

\* DELETE /api/session/{session_id}
ClearSession(session_id) ==
    /\ IF sessions[session_id] # <<>>
         THEN /\ objs' = IF up.pc # "idle" /\ up.session = sessions[session_id][1]
                            THEN [objs EXCEPT
                                    ![sessions[session_id][1]].vector_store = <<>>,
                                    ![sessions[session_id][1]].memory = <<>>]
                            ELSE [objs EXCEPT ![sessions[session_id][1]] = Dropped]
              /\ sessions' = [sessions EXCEPT ![session_id] = <<>>]
         ELSE UNCHANGED <<sessions, objs>>
    /\ resp' = [Resp0 EXCEPT !.op = "clear_session", !.session_id = session_id]
    /\ UNCHANGED <<groq_api_key, up, core>>

\* What LexiSenseAgent.chat and chat_stream raise between the append of the user
\* message and the try block: _detect_intent calls vector_store.get_files(),
\* which VectorStore does not have, for a comparison query; _build_context passes
\* file_filter to hybrid_search; _build_messages calls get_files() too.
chat_raises(query) ==
    IF query = "compare a and b" THEN "AttributeError"
    ELSE IF bind(hybrid_search_params, {"file_filter"}) # None
      THEN bind(hybrid_search_params, {"file_filter"})
    ELSE "AttributeError"

\* POST /api/chat: agent.chat(query), or agent.chat_stream(query) when stream.
\* Without a client the agent answers with a warning and keeps its memory.
Chat(session_id, query, stream) ==
    /\ CanGetOrCreate(session_id)
    /\ sessions' = sessions_after(session_id)
    /\ LET o == session_ref(session_id)
           os == objs_after(session_id)
           op == IF stream THEN "chat_stream" ELSE "chat"
       IN  IF groq_api_key = ""
             THEN /\ objs' = os
                  /\ resp' = [Resp0 EXCEPT !.op = op, !.session_id = session_id]
             ELSE /\ Len(os[o].memory) < MaxMessages
                  /\ objs' = [os EXCEPT ![o].memory =
                                 Append(@, [role |-> "user", content |-> query])]
                  /\ resp' = [Resp0 EXCEPT !.op = op, !.session_id = session_id,
                                           !.raised = chat_raises(query)]
    /\ UNCHANGED <<groq_api_key, up, core>>

NextServer ==
    \/ \E session_id \in SessionIds, files \in UploadRequests :
          UploadFiles(session_id, files)
    \/ UploadFilesResume
    \/ \E session_id \in SessionIds : ClearSession(session_id)
    \/ \E session_id \in SessionIds, query \in ChatQueries, stream \in BOOLEAN :
          Chat(session_id, query, stream)

SpecServer == InitServer /\ [][NextServer]_vars

\* ================================================================ claims
Consistent(n, r, c) == n = r /\ r = c

\* C1: whenever no add_chunks call is in progress (after any sequence of
\* add_chunks and clear calls, under any provider behaviour), the number of
\* chunks, the number of embedding rows (0 for None) and bm25.corpus_size are equal.
C1_CountsAgree ==
    upc \in {"idle", "await_read"} =>
        Consistent(Len(chunks), rows(embeddings), bm25.corpus_size)

\* Two chunks after two add_chunks calls, the first embedded by the zero
\* fallback and the second by the provider.
C1_Witness ==
    /\ upc = "idle"
    /\ Len(chunks) = 2
    /\ chunks[2].chunk_index = 0
    /\ rows(embeddings) = 2
    /\ embeddings[1].v[1] = ZeroVec
    /\ embeddings[1].v[2] # ZeroVec

\* C2: every hybrid_search, also one that runs while an upload is under way,
\* reads a store whose chunk count, embedding row count and BM25 corpus size agree.
C2_SearchReadsConsistentStore ==
    ret.op = "hybrid_search" => Consistent(ret.seen[1], ret.seen[2], ret.seen[3])

\* A search that ran between two files of an upload, on a store that holds chunks.
C2_Witness ==
    /\ ret.op = "hybrid_search"
    /\ upc = "await_read"
    /\ ret.seen[1] >= 1
    /\ ret.result # <<>>

\* C3: no call on the retrieval core raises.
C3_NoCallRaises == ret.raised = None

\* The run has a 200 among the requests the code makes.
Succeeds(run) ==
    \E k \in 1..3 : run[k] \in {"ok200", "wide200"} /\ \A j \in 1..(k - 1) : run[j] = "s503"

\* C4: when the token is unconfigured, or the provider's answers end in a
\* timeout, a status other than 200, an unusable body or three 503s, embed raises
\* nothing and returns len(texts) rows of dimension 384, all zero.
C4_EmbedFallsBackToZeros ==
    (ret.op = "embed" /\ (ret.token = "" \/ ~Succeeds(ret.run))) =>
        /\ ret.raised = None
        /\ ret.res.n = Len(ret.texts)
        /\ ret.res.d = 384
        /\ Len(ret.res.v) = Len(ret.texts)
        /\ \A i \in 1..Len(ret.res.v) : ret.res.v[i] = <<0, 0>>

\* embed of two texts with a configured token, the provider timing out on the
\* second request.
C4_Witness ==
    /\ ret.op = "embed"
    /\ ret.token # ""
    /\ Len(ret.texts) = 2
    /\ ret.run[1] = "s503"
    /\ ret.run[2] = "timeout"

\* C5: embed makes at most 3 requests; a request after the first is made only
\* after a 503; an answer that is not a 503 is the last one; and after a third
\* 503 the call returns zero vectors.
C5_EmbedBounded ==
    ret.op = "embed" =>
        /\ ret.requests <= 3
        /\ \A k \in 2..ret.requests : ret.run[k - 1] = "s503"
        /\ \A k \in 1..ret.requests : ret.run[k] # "s503" => k = ret.requests
        /\ (ret.token # "" /\ ret.texts # <<>>) => ret.requests >= 1
        /\ (ret.token # "" /\ ret.texts # <<>> /\ \A k \in 1..3 : ret.run[k] = "s503") =>
               /\ ret.requests = 3
               /\ ret.res = [n |-> Len(ret.texts), d |-> 384,
                             v |-> [i \in 1..Len(ret.texts) |-> <<0, 0>>]]

\* Three 503s in a row, with a 200 waiting behind them.
C5_Witness ==
    /\ ret.op = "embed"
    /\ ret.requests = 3
    /\ ret.run[3] = "s503"
    /\ ret.run[4] = "ok200"
    /\ Len(ret.texts) = 2

\* C6: every pair hybrid_search returns has a score > 0.
C6_ScoresPositive ==
    ret.op = "hybrid_search" =>
        \A j \in 1..Len(ret.result) : ret.result[j].score > 0

\* top_k leaves room for both chunks, and the one whose combined score is 0 is
\* not returned.
C6_Witness ==
    /\ ret.op = "hybrid_search"
    /\ ret.top_k = TOP_K_RESULTS
    /\ Len(ret.combined) = 2
    /\ Len(ret.result) = 1
    /\ \E i \in 1..2 : ret.combined[i] = 0

ResultIdx(r) == {r[j].idx : j \in 1..Len(r)}

\* C7: for top_k >= 1 the result has at most top_k pairs, each a chunk of the
\* store with its combined score, in non-increasing score order, and a chunk with
\* a positive score is left out only when the result is full and no returned
\* score is below its score.
C7_TopKBestFirst ==
    (ret.op = "hybrid_search" /\ ret.top_k >= 1) =>
        /\ Len(ret.result) <= ret.top_k
        /\ Cardinality(ResultIdx(ret.result)) = Len(ret.result)
        /\ \A j \in 1..Len(ret.result) :
              /\ ret.result[j].idx \in 1..Len(chunks)
              /\ ret.result[j].chunk = chunks[ret.result[j].idx]
              /\ ret.result[j].score = ret.combined[ret.result[j].idx]
        /\ \A j \in 1..(Len(ret.result) - 1) :
              ret.result[j].score >= ret.result[j + 1].score
        /\ \A i \in 1..Len(ret.combined) :
              (i \notin ResultIdx(ret.result) /\ ret.combined[i] > 0) =>
                  /\ Len(ret.result) = ret.top_k
                  /\ \A j \in 1..Len(ret.result) : ret.combined[i] <= ret.result[j].score

\* top_k = 1 on two chunks with different positive scores: the better one is returned.
C7_Witness ==
    /\ ret.op = "hybrid_search"
    /\ ret.top_k = 1
    /\ Len(ret.combined) = 2
    /\ ret.combined[1] > 0
    /\ ret.combined[2] > ret.combined[1]
    /\ Len(ret.result) = 1

\* C8: for every top_k <= 0 hybrid_search returns the empty sequence.
C8_NonPositiveTopKEmpty ==
    (ret.op = "hybrid_search" /\ ret.top_k <= 0) => ret.result = <<>>

\* C9: a search given a file filter returns, and returns only chunks of that file
\* (none for a file that has no chunks in the store).
C9_FilterRestrictsResult ==
    (ret.op = "_build_context" /\ ret.file_filter # None) =>
        /\ ret.raised = None
        /\ \A j \in 1..Len(ret.result) : ret.result[j].chunk.filename = ret.file_filter

AllZero(e) == \A i \in 1..rows(e) : e[1].v[i] = ZeroVec

\* The chunks whose BM25 score for the query is > 0.
KeywordHits(kw) == {i \in 1..Len(kw) : kw[i] > 0}

\* C10: with all-zero embeddings for the chunks and the query, the result is the
\* chunks with a BM25 score > 0, limited to top_k (none for top_k <= 0), best
\* BM25 score first.
C10_ZeroEmbeddingsRankByBM25 ==
    (ret.op = "hybrid_search" /\ initialized /\ chunks # <<>>
        /\ AllZero(embeddings) /\ ret.query_emb = ZeroVec) =>
        /\ ResultIdx(ret.result) \subseteq KeywordHits(ret.kw)
        /\ Len(ret.result) = Min(Max(ret.top_k, 0), Cardinality(KeywordHits(ret.kw)))
        /\ Cardinality(ResultIdx(ret.result)) = Len(ret.result)
        /\ \A j \in 1..(Len(ret.result) - 1) :
              ret.kw[ret.result[j].idx] >= ret.kw[ret.result[j + 1].idx]
        /\ \A i \in KeywordHits(ret.kw) \ ResultIdx(ret.result) :
              \A j \in 1..Len(ret.result) : ret.kw[i] <= ret.kw[ret.result[j].idx]

\* The same with top_k >= 0, the values for which the code limits the result to top_k.
C10_ForNonNegativeTopK == ret.top_k >= 0 => C10_ZeroEmbeddingsRankByBM25

\* The state of a freshly constructed VectorStore.
StoreFresh ==
    /\ embeddings = NoEmbeddings
    /\ chunks = <<>>
    /\ bm25 = BM25Init
    /\ initialized = FALSE

\* C11: clear, after add_chunks calls on any store, leaves the state of a freshly
\* constructed VectorStore (no chunks, no embeddings, an unfit BM25, not
\* initialized), and every hybrid_search on that state returns the empty sequence.
C11_ClearRestoresFresh ==
    /\ ret.op = "clear" => (StoreFresh /\ Len(chunks) = 0)
    /\ (ret.op = "hybrid_search" /\ StoreFresh) =>
           (ret.result = <<>> /\ ret.raised = None)

\* clear has just run on a store that held two chunks.
C11_Witness ==
    /\ ret.op = "clear"
    /\ ret.seen = <<2, 2, 2>>
    /\ StoreFresh

\* C12: an empty query on a non-empty store returns the empty sequence, whatever
\* vector the provider gives for the empty string.
C12_EmptyQueryEmpty ==
    (ret.op = "hybrid_search" /\ ret.query = <<>> /\ chunks # <<>>) => ret.result = <<>>

OldRows == IF embeddings = NoEmbeddings THEN <<>> ELSE embeddings[1].v

\* C13: add_chunks only appends.  Its assignment of self.embeddings keeps the old
\* rows as a prefix and adds the rows embed returned, one per new chunk in order;
\* its extend keeps the old chunks as a prefix and adds the new ones in order; so
\* row i is the vector produced for chunk i.
C13_AppendOnly ==
    [][ /\ (upc = "await_read" /\ upc' = "assigned") =>
              /\ embeddings'[1].v = OldRows \o pending'.emb.v
              /\ Len(pending'.emb.v) = Len(pending'.chunks)
              /\ rows(embeddings') = rows(embeddings) + Len(pending'.chunks)
              /\ chunks' = chunks
        /\ (upc = "assigned" /\ upc' = "extended") =>
              /\ chunks' = chunks \o pending.chunks
              /\ embeddings' = embeddings
              /\ \A j \in 1..Len(pending.chunks) :
                    /\ chunks'[Len(chunks) + j] = pending.chunks[j]
                    /\ embeddings'[1].v[Len(chunks) + j] = pending.emb.v[j]
        /\ (upc = "extended" /\ upc' = "await_read") =>
              (chunks' = chunks /\ embeddings' = embeddings)
      ]_vars

\* A second add_chunks call has extended a store of one chunk, the two chunks
\* having different provider vectors.
C13_Witness ==
    /\ upc = "extended"
    /\ Len(chunks) = 2
    /\ Len(pending.chunks) = 1
    /\ embeddings[1].v = << <<5, 0>>, <<3, 4>> >>
    /\ chunks[1].content # chunks[2].content

\* C14: at every hybrid_search the BM25 state (corpus size, document lengths,
\* their sum, document frequencies, tokenized corpus) is what a fresh fit over the
\* contents of all chunks now in the store computes.
C14_BM25FitsCurrentCorpus ==
    ret.op = "hybrid_search" =>
        /\ bm25 = fit(all_texts(chunks))
        /\ bm25.corpus_size = Len(chunks)

\* A search on two chunks that were added by two add_chunks calls.
C14_Witness ==
    /\ ret.op = "hybrid_search"
    /\ Len(chunks) = 2
    /\ chunks[2].chunk_index = 0
    /\ chunks[1].content # chunks[2].content
    /\ ret.result # <<>>

\* The document has a token of the query.
Contains(text, query) == Range(_tokenize(text)) \cap Range(_tokenize(query)) # {}

\* C15: BM25.score returns one score per fitted document, in corpus order (none
\* for an empty corpus); a score is > 0 exactly when the document contains a
\* query token and is 0 otherwise.
C15_ScorePositiveIffTokenShared ==
    ret.op = "score" =>
        /\ Len(ret.kw) = Len(ret.texts)
        /\ \A i \in 1..Len(ret.texts) :
              /\ Contains(ret.texts[i], ret.query) => ret.kw[i] > 0
              /\ ~Contains(ret.texts[i], ret.query) => ret.kw[i] = 0
        /\ \A i, j \in 1..Len(ret.texts) :
              (Contains(ret.texts[i], ret.query) /\ ~Contains(ret.texts[j], ret.query))
                  => ret.kw[i] > ret.kw[j]

\* Three documents and a two-token query: one document has only the second
\* token, one has no token at all.
C15_Witness ==
    /\ ret.op = "score"
    /\ ret.query = Q_Bc
    /\ ret.texts = <<T_Aac, T_dot, T_ab>>
    /\ ret.kw[1] > 0
    /\ ret.kw[2] = 0

\* C16: every chunk chunk_text emits has at most chunk_size words.
C16_ChunksWithinSize ==
    ck.pc # "idle" =>
        \A i \in 1..Len(ck.chunks) : Len(split(ck.chunks[i].content)) <= ck.chunk_size

\* C17: for a text with fewer than chunk_size words (and at least one),
\* chunk_text returns exactly one chunk, whose content is the text stripped of
\* leading and trailing whitespace.
C17_ShortInputOneChunk ==
    (ck.pc = "done" /\ Len(split(ck.text)) >= 1 /\ Len(split(ck.text)) < ck.chunk_size) =>
        /\ Len(ck.chunks) = 1
        /\ ck.chunks[1].content = strip(ck.text)

\* C18: the chunk at position i of the list (counted from 0) has chunk_index i,
\* at every point of chunk_text and whichever emission point appended it.
C18_IndexIsPosition ==
    ck.pc # "idle" =>
        \A i \in 1..Len(ck.chunks) : ck.chunks[i].chunk_index = i - 1

\* A finished call whose chunks came from all four emission points.
C18_Witness ==
    /\ ck.pc = "done"
    /\ {ck.log[i].via : i \in 1..Len(ck.log)} = {"buffer", "sentence", "paragraph", "final"}
    /\ Len(ck.chunks) >= 4

\* The paragraphs and, for those with more than chunk_size words, their sentences.
Units(c) ==
    Len(c.paragraphs)
    + SumSeq([i \in 1..Len(c.paragraphs) |->
                IF Len(split(c.paragraphs[i])) > c.chunk_size
                  THEN Len(_split_into_sentences(c.paragraphs[i])) ELSE 0])

\* C19: chunk_text returns, for every text and every (chunk_size, chunk_overlap),
\* chunk_overlap >= chunk_size included, and the chunks it has emitted are never
\* more than its paragraph and sentence units plus one.
C19_TerminatesBounded ==
    /\ (ck.pc = "start") ~> (ck.pc = "done")
    /\ [](ck.pc # "idle" => Len(ck.chunks) <= Units(ck) + 1)

\* A finished call with chunk_overlap >= chunk_size that emitted a chunk per unit.
C19_Witness ==
    /\ ck.pc = "done"
    /\ ck.chunk_overlap >= ck.chunk_size
    /\ Len(ck.chunks) >= 3
    /\ \E i \in 1..Len(ck.log) : ck.log[i].via = "sentence"

\* C20: for a text that is one paragraph of more than chunk_size words and at
\* least two sentences, chunk_text emits more than one chunk, and with
\* chunk_overlap > 0 each chunk's last sentence is a sentence of the next chunk.
C20_LongParagraphOverlaps ==
    (/\ ck.pc = "done"
     /\ Len(ck.paragraphs) = 1
     /\ Len(split(ck.paragraphs[1])) > ck.chunk_size
     /\ Len(_split_into_sentences(ck.paragraphs[1])) >= 2) =>
        /\ Len(ck.chunks) > 1
        /\ ck.chunk_overlap > 0 =>
              \A i \in 1..(Len(ck.log) - 1) :
                 /\ Range(ck.log[i].parts) \cap Range(ck.log[i + 1].parts) # {}
                 /\ ck.log[i].parts[Len(ck.log[i].parts)] \in Range(ck.log[i + 1].parts)

\* One paragraph "B a. B" with chunk_size 2 and chunk_overlap 1: two chunks, the
\* sentence "B a." in both.
C20_Witness ==
    /\ ck.pc = "done"
    /\ ck.text = <<"B", " ", "a", ".", " ", "B">>
    /\ ck.chunk_size = 2
    /\ ck.chunk_overlap = 1
    /\ Len(ck.chunks) = 2
    /\ ck.chunks[2].content = <<"B", " ", "a", ".", "\n", "\n", "B">>

\* C21: with chunk_size 600 and chunk_overlap 100, a text of three 300-word
\* paragraphs gives exactly two chunks: chunk 0 is paragraphs 1 and 2, chunk 1 is
\* a tail of chunk 0's paragraphs of at most 100 words followed by paragraph 3.
C21_ThreeParagraphs ==
    (/\ ck.pc = "done"
     /\ ck.text = T_300x3
     /\ ck.chunk_size = 600
     /\ ck.chunk_overlap = 100) =>
        /\ Len(ck.chunks) = 2
        /\ ck.log[1].parts = <<Paragraph300("a"), Paragraph300("B")>>
        /\ \E tail \in {<<>>, <<Paragraph300("B")>>,
                          <<Paragraph300("a"), Paragraph300("B")>>} :
              /\ word_count(tail) <= 100
              /\ ck.log[2].parts = tail \o <<Paragraph300("c")>>

\* C22: every chunk after the first holds a unit appended after the previous
\* flush (it is more than the overlap kept from the chunk before it), and no two
\* consecutive chunks have the same content.
C22_EveryChunkHasNewUnit ==
    ck.pc # "idle" =>
        \A i \in 1..(Len(ck.log) - 1) :
            /\ ck.log[i + 1].parts # _get_overlap_parts(ck.log[i].parts, ck.chunk_overlap)
            /\ ck.chunks[i + 1].content # ck.chunks[i].content
\* The last k parts.
Suffix(parts, k) == SubSeq(parts, Len(parts) - k + 1, Len(parts))

\* C23: for a non-empty buffer, _get_overlap_parts returns a non-empty suffix of
\* the buffer (contiguous, in order) that is the last unit alone or has at most
\* overlap_words words, and no longer suffix has at most overlap_words words.
C23_OverlapIsLongestTail ==
    (ret.op = "_get_overlap_parts" /\ ret.parts # <<>>) =>
        LET k == Len(ret.result)
        IN  /\ k \in 1..Len(ret.parts)
            /\ ret.result = Suffix(ret.parts, k)
            /\ k = 1 \/ word_count(ret.result) <= ret.overlap_words
            /\ \A k2 \in (k + 1)..Len(ret.parts) :
                   word_count(Suffix(ret.parts, k2)) > ret.overlap_words

\* Three units of 3, 2 and 1 words with overlap_words 3: the last two are kept.
C23_Witness ==
    /\ ret.op = "_get_overlap_parts"
    /\ ret.parts = <<<<"a", " ", "a", ".", " ", "a">>, <<"B", " ", "a">>, <<"a">>>>
    /\ ret.overlap_words = 3
    /\ ret.result = <<<<"B", " ", "a">>, <<"a">>>>

RECURSIVE Flatten(_)
Flatten(ss) == IF ss = <<>> THEN <<>> ELSE Head(ss) \o Flatten(Tail(ss))

\* The units of a text in input order: its paragraphs, and for a paragraph of
\* more than chunk_size words its sentences.
ExpectedUnits(c) ==
    LET paragraphs == stripped_nonempty(split_paragraphs(c.text, 1, <<>>))
    IN  Flatten([i \in 1..Len(paragraphs) |->
                   IF Len(split(paragraphs[i])) > c.chunk_size
                     THEN _split_into_sentences(paragraphs[i])
                     ELSE <<paragraphs[i]>>])

RECURSIVE Covers(_, _, _, _, _)
\* The chunks from number i on are runs units[b..e] of consecutive units, joined;
\* the runs start and end in non-decreasing positions, leave no unit out between
\* them and end with the last unit.  `start` and `covered` are the previous
\* run's first and last positions.
Covers(cs, i, units, start, covered) ==
    IF i > Len(cs) THEN covered = Len(units)
    ELSE \E b \in Max(start, 1)..(covered + 1), e \in covered..Len(units) :
            /\ b <= e
            /\ cs[i].content = join(SubSeq(units, b, e))
            /\ Covers(cs, i + 1, units, b, e)

\* C26: chunk_text loses no text: when it returns, every paragraph, and every
\* sentence of a paragraph of more than chunk_size words, is whole inside at least
\* one chunk, and the units are in input order inside and across the chunks.
C26_NoTextLost ==
    ck.pc = "done" => Covers(ck.chunks, 1, ExpectedUnits(ck), 1, 0)

\* A finished call that flushed at a paragraph and at a sentence and kept an
\* overlap, so that a unit is in two chunks.
C26_Witness ==
    /\ ck.pc = "done"
    /\ ck.chunk_overlap > 0
    /\ Len(ck.chunks) >= 3
    /\ {"sentence", "paragraph"} \subseteq {ck.log[i].via : i \in 1..Len(ck.log)}
    /\ Len(ExpectedUnits(ck)) >= 3
\* C24: among chunks with equal combined score hybrid_search orders by corpus
\* position: the earlier chunk comes first in the result, and when the top_k cut
\* falls inside a tie the earlier chunk is the one kept.
C24_TiesByCorpusOrder ==
    (ret.op = "hybrid_search" /\ ret.top_k >= 1) =>
        /\ \A j, k \in 1..Len(ret.result) :
              (j < k /\ ret.result[j].score = ret.result[k].score) =>
                  ret.result[j].idx < ret.result[k].idx
        /\ \A i \in 1..Len(ret.combined) :
              (i \notin ResultIdx(ret.result) /\ ret.combined[i] > 0) =>
                  \A j \in 1..Len(ret.result) :
                      ret.result[j].score = ret.combined[i] => ret.result[j].idx < i

\* C25: a negative cosine counts as 0 in the fusion: a chunk's combined score is
\* at least keyword_weight times its normalized BM25 score, and a chunk with a
\* query term is in the result when top_k leaves room for every chunk.
C25_NegativeCosineClamped ==
    (ret.op = "hybrid_search" /\ ret.combined # <<>>) =>
        LET sem == semantic_scores(embeddings, ret.query_emb)
            SD == IF SeqMax(sem) > 0 THEN SeqMax(sem) ELSE 25
        IN  \A i \in 1..Len(ret.combined) :
               /\ ret.combined[i] >= KEYWORD_WEIGHT * ret.kw[i] * SD
               /\ (ret.kw[i] > 0 /\ ret.top_k >= Len(chunks)) =>
                      i \in ResultIdx(ret.result)
\* C27: an add_chunks call that raises leaves chunks, embeddings, the BM25 state
\* and the initialized flag as they were before the call, and the counts of the
\* store it leaves agree.
C27_RaiseLeavesStore ==
    /\ [][(ret'.op = "add_chunks" /\ ret'.raised # None) =>
             UNCHANGED <<chunks, embeddings, bm25, initialized>>]_vars
    /\ []((ret.op = "add_chunks" /\ ret.raised # None) =>
             Consistent(Len(chunks), rows(embeddings), bm25.corpus_size))

\* np.vstack has raised on a store that holds a chunk.
C27_Witness ==
    /\ ret.op = "add_chunks"
    /\ ret.raised = "ValueError"
    /\ Len(chunks) >= 1
    /\ initialized
\* C28: on an agent with a configured client the memory alternates strictly
\* after any sequence of chat and chat_stream calls: user, assistant, user,
\* assistant, ..., each user message followed by its one assistant message.
C28_MemoryAlternates ==
    groq_api_key # "" =>
        \A o \in 1..Len(objs) :
            /\ Len(objs[o].memory) % 2 = 0
            /\ \A i \in 1..Len(objs[o].memory) :
                   objs[o].memory[i].role = IF i % 2 = 1 THEN "user" ELSE "assistant"

\* C29: when upload_files returns session_id S with a successful result, also
\* after a DELETE of S at one of its awaits, S is in the registry and the store
\* registered under S holds the total_chunks of the response.
C29_UploadRefersToLiveSession ==
    [][(/\ up.pc = "await_read"
        /\ up'.pc = "idle"
        /\ \E i \in 1..Len(resp'.results) : resp'.results[i].status = "success") =>
            /\ sessions'[resp'.session_id] # <<>>
            /\ Len(objs'[sessions'[resp'.session_id][1]].vector_store)
                  = resp'.total_chunks]_vars

RECURSIVE chunk_count_sum(_, _)
\* The sum of chunk_count over the entries of a files dict with the keys in names.
chunk_count_sum(files, names) ==
    IF names = {} THEN 0
    ELSE LET f == CHOOSE x \in names : TRUE
         IN  (IF files[f] = <<>> THEN 0 ELSE files[f][1])
               + chunk_count_sum(files, names \ {f})

\* C30: in every registered session the store's total_chunks is the sum of
\* chunk_count over the session's files map, and every chunk of the store
\* belongs to a file of the map.
C30_ChunksMatchFilesMap ==
    \A sid \in SessionIds :
        sessions[sid] # <<>> =>
            LET obj == objs[sessions[sid][1]]
            IN  /\ Len(obj.vector_store) = chunk_count_sum(obj.files, UploadNames)
                /\ \A i \in 1..Len(obj.vector_store) :
                       obj.files[obj.vector_store[i]] # <<>>
====
